---- MODULE Spec2Model ----
(***************************************************************************)
(* NPG-Lite IDF firmware: the acquisition task (adc_conv_task), the        *)
(* NimBLE host callbacks (gap_event_handler, gatt_svr_chr_access_cb), the  *)
(* battery cutoff (battery_check) and the status LED (set_pixel), as one   *)
(* state machine.  Bytes are integers 0..255, text is ASCII codes.         *)
(***************************************************************************)
EXTENDS Integers, Sequences, FiniteSets, TLC

(* ------------------------------------------------------------------ *)
(* Bounds of the model (not program constants).                        *)
(* ------------------------------------------------------------------ *)
\* conv_done_cb is not fired any more once this many packets were built
MaxBuilt == 2
\* the same, where the counter is followed around its wrap (11 * 25 > 256)
MaxBuiltSeq == 11
\* largest task-notification count the model lets conv_done_cb pile up
MaxPending == 2
\* connection handles the stack hands out are 0..MaxHandle
MaxHandle == 1
\* set_pixel is called with the indices 0..MaxPixelArg (and with 255)
MaxPixelArg == 7

(* ------------------------------------------------------------------ *)
(* Program constants.                                                  *)
(* ------------------------------------------------------------------ *)
PACKET_LEN == 25
NUM_CHANNELS == 4
SOC_ADC_DIGI_RESULT_BYTES == 4
SAMPLE_SIZE == (NUM_CHANNELS - 1) * 2 + 1
PACKET_SIZE == PACKET_LEN * SAMPLE_SIZE
CONV_FRAME_SIZE == NUM_CHANNELS * PACKET_LEN * SOC_ADC_DIGI_RESULT_BYTES
NUM_NEOPIXEL == 6
RED == 240
GREEN == 120
BLUE == 0
CMD_BUFFER_SIZE == 20
LOW_BATT_PERCENT == 5
\* attribute handles the stack stored at registration (any two distinct values)
data_char_handle == 12
control_char_handle == 14

\* the value of link while no connection exists
NoLink == MaxHandle + 1
Handles == 0..MaxHandle

(* ------------------------------------------------------------------ *)
(* Text: ASCII codes.                                                  *)
(* ------------------------------------------------------------------ *)
Asc(ch) ==
  CASE ch = "A" -> 65 [] ch = "F" -> 70 [] ch = "H" -> 72 [] ch = "O" -> 79
    [] ch = "P" -> 80 [] ch = "R" -> 82 [] ch = "S" -> 83 [] ch = "T" -> 84
    [] ch = "U" -> 85 [] ch = "W" -> 87 [] ch = "X" -> 88
    [] ch = "a" -> 97 [] ch = "f" -> 102 [] ch = "h" -> 104 [] ch = "o" -> 111
    [] ch = "p" -> 112 [] ch = "r" -> 114 [] ch = "s" -> 115 [] ch = "t" -> 116
    [] ch = "u" -> 117 [] ch = "w" -> 119 [] ch = "x" -> 120
    [] ch = " " -> 32 [] ch = "1" -> 49

Bytes(s) == [i \in 1..Len(s) |-> Asc(s[i])]

L_START == Bytes(<<"S", "T", "A", "R", "T">>)
L_STOP == Bytes(<<"S", "T", "O", "P">>)
L_WHORU == Bytes(<<"W", "H", "O", "R", "U">>)
L_STATUS == Bytes(<<"S", "T", "A", "T", "U", "S">>)

(* ------------------------------------------------------------------ *)
(* gatt_svr_chr_access_cb, write branch: decoding the command.         *)
(* ------------------------------------------------------------------ *)
\* toupper() of <ctype.h> in the C locale
toupper(c) == IF c >= 97 /\ c <= 122 THEN c - 32 ELSE c

\* size_t copy_len = om_len < 19 ? om_len : 19
copy_len(om) == IF Len(om) < 19 THEN Len(om) ELSE 19

\* char cmd_buffer[20] = {0}; memcpy; the upper-casing loop; the terminator.
\* Indices 0..19 only: what the loop and the terminator do beyond index 19
\* is OutOfBounds below.
cmd_buffer(om) ==
  [i \in 0..(CMD_BUFFER_SIZE - 1) |->
     IF i < copy_len(om) THEN toupper(om[i + 1]) ELSE 0]

\* the indices of cmd_buffer the handler touches: memcpy writes
\* 0..copy_len-1, the loop reads and writes 0..om_len-1, the terminator
\* writes om_len
IndicesTouched(om) ==
  (0..(copy_len(om) - 1)) \cup (0..(Len(om) - 1)) \cup {Len(om)}

\* cmd_buffer[om_len] = '\0' (and the loop, for om_len > 20) leaves the array
OutOfBounds(om) == Len(om) > CMD_BUFFER_SIZE - 1

\* strncmp(buf, lit, n) == 0 for a literal of at least n non-NUL bytes
strncmp0(buf, lit, n) == \A i \in 0..(n - 1) : buf[i] = lit[i + 1]

\* the if / else-if chain over the four literals
Decode(om) ==
  LET b == cmd_buffer(om) IN
  IF strncmp0(b, L_START, 5) THEN "START"
  ELSE IF strncmp0(b, L_STOP, 4) THEN "STOP"
  ELSE IF strncmp0(b, L_WHORU, 5) THEN "WHORU"
  ELSE IF strncmp0(b, L_STATUS, 6) THEN "STATUS"
  ELSE "UNKNOWN"

\* streaming after the branch taken
FlagAfter(cmd, flag) ==
  IF cmd = "START" THEN TRUE ELSE IF cmd = "STOP" THEN FALSE ELSE flag

\* char *response
Response(cmd, flag) ==
  CASE cmd = "START" -> "RUNNING"
    [] cmd = "STOP" -> "STOPPED"
    [] cmd = "WHORU" -> "NPG-LITE"
    [] cmd = "STATUS" -> (IF flag THEN "RUNNING" ELSE "STOPPED")
    [] OTHER -> "UNKNOWN COMMAND"

\* read branch: read_response = streaming ? "RUNNING" : "STOPPED"
ReadResponse_const(flag) == "STOPPED"
ReadResponse(flag) == IF flag THEN "RUNNING" ELSE "STOPPED"

(* ------------------------------------------------------------------ *)
(* neopixel.c                                                          *)
(* ------------------------------------------------------------------ *)
\* led_strip_hsv2rgb: rgb_max = v * 2.55f and rgb_min = rgb_max*(100-s)/100.0f
\* truncated to uint32_t
led_strip_hsv2rgb(h0, s, v) ==
  LET h == h0 % 360
      rgb_max == (v * 255) \div 100
      rgb_min == (rgb_max * (100 - s)) \div 100
      i == h \div 60
      diff == h % 60
      rgb_adj == ((rgb_max - rgb_min) * diff) \div 60
  IN CASE i = 0 -> [r |-> rgb_max, g |-> rgb_min + rgb_adj, b |-> rgb_min]
       [] i = 1 -> [r |-> rgb_max - rgb_adj, g |-> rgb_max, b |-> rgb_min]
       [] i = 2 -> [r |-> rgb_min, g |-> rgb_max, b |-> rgb_min + rgb_adj]
       [] i = 3 -> [r |-> rgb_min, g |-> rgb_max - rgb_adj, b |-> rgb_max]
       [] i = 4 -> [r |-> rgb_min + rgb_adj, g |-> rgb_min, b |-> rgb_max]
       [] OTHER -> [r |-> rgb_max, g |-> rgb_min, b |-> rgb_max - rgb_adj]

\* set_pixel gets past its range check and reaches rmt_transmit
set_pixel_transmits(pixel_num) == ~(pixel_num > NUM_NEOPIXEL - 1 \/ pixel_num < 0)

\* set_pixel on the buffer px (static uint8_t pixels[NUM_NEOPIXEL * 3])
set_pixel_wrap(px, pixel_num, color, brightness) ==
  LET c == led_strip_hsv2rgb(color, 100, brightness)
      n == pixel_num % NUM_NEOPIXEL
  IN [i \in 0..(NUM_NEOPIXEL * 3 - 1) |->
        IF i = n * 3 + 0 THEN c.g % 256
        ELSE IF i = n * 3 + 1 THEN c.b % 256
        ELSE IF i = n * 3 + 2 THEN c.r % 256
        ELSE px[i]]
set_pixel(px, pixel_num, color, brightness) ==
  IF pixel_num > NUM_NEOPIXEL - 1 \/ pixel_num < 0 THEN px
  ELSE LET c == led_strip_hsv2rgb(color, 100, brightness) IN
       [i \in 0..(NUM_NEOPIXEL * 3 - 1) |->
          IF i = pixel_num * 3 + 0 THEN c.g % 256
          ELSE IF i = pixel_num * 3 + 1 THEN c.b % 256
          ELSE IF i = pixel_num * 3 + 2 THEN c.r % 256
          ELSE px[i]]

\* the three bytes of one pixel, and the bytes a colour is stored as
Pixel(px, n) == <<px[n * 3], px[n * 3 + 1], px[n * 3 + 2]>>
Shade(color) == Pixel(set_pixel([i \in 0..(NUM_NEOPIXEL * 3 - 1) |-> 0], 0, color, 10), 0)

(* ------------------------------------------------------------------ *)
(* Sample encoder (the body of the valid-read branch of adc_conv_task) *)
(* ------------------------------------------------------------------ *)
\* #define MAP(X) ((X) * 4095 / 3329)
MAP(X) == (X * 4095) \div 3329

\* counter++ on a uint8_t
Inc8_nowrap(c) == c + 1
Inc8(c) == (c + 1) % 256

\* the counter after n increments
RECURSIVE CounterAfter(_, _)
CounterAfter(c, n) == IF n = 0 THEN c ELSE Inc8(CounterAfter(c, n - 1))

\* A conversion frame is synthetic: channel codes spread from a seed, one
\* battery code.  type2_data(frame, j, i) is the 12-bit type2.data field of
\* result[(i + j * NUM_CHANNELS) * SOC_ADC_DIGI_RESULT_BYTES].
MkFrame(seed, batt) == [seed |-> seed, batt |-> batt]
type2_data_slot3(frame, j, i) ==
  IF i < 2 THEN (frame.seed + 331 * j + 1117 * i) % 4096 ELSE frame.batt
type2_data(frame, j, i) ==
  IF i < 3 THEN (frame.seed + 331 * j + 1117 * i) % 4096 ELSE frame.batt

\* uint16_t adc_reading = MAP(data)
adc_reading_u8(data) == MAP(data) % 256
adc_reading(data) == MAP(data) % 65536

\* chords_packet[j][0..6]
EncodeRow_le(c, frame, j) ==
  <<c,
    adc_reading(type2_data(frame, j, 0)) % 256, (adc_reading(type2_data(frame, j, 0)) \div 256) % 256,
    adc_reading(type2_data(frame, j, 1)) % 256, (adc_reading(type2_data(frame, j, 1)) \div 256) % 256,
    adc_reading(type2_data(frame, j, 2)) % 256, (adc_reading(type2_data(frame, j, 2)) \div 256) % 256>>
EncodeRow(c, frame, j) ==
  <<c,
    (adc_reading(type2_data(frame, j, 0)) \div 256) % 256, adc_reading(type2_data(frame, j, 0)) % 256,
    (adc_reading(type2_data(frame, j, 1)) \div 256) % 256, adc_reading(type2_data(frame, j, 1)) % 256,
    (adc_reading(type2_data(frame, j, 2)) \div 256) % 256, adc_reading(type2_data(frame, j, 2)) % 256>>

\* the for-j loop: rows 1..25 of the packet (row j of the code is index j+1)
BuildPacket_zero(c, frame) ==
  [r \in 1..PACKET_LEN |-> EncodeRow(CounterAfter(0, r - 1), frame, r - 1)]
BuildPacket(c, frame) ==
  [r \in 1..PACKET_LEN |-> EncodeRow(CounterAfter(c, r - 1), frame, r - 1)]

\* battery_reading: the sum of MAP(data * 2) over the rows, / PACKET_LEN
RECURSIVE BattSum(_, _)
BattSum(frame, n) ==
  IF n = 0 THEN 0
  ELSE BattSum(frame, n - 1) + adc_reading(type2_data(frame, n - 1, 3) * 2)
BatteryReading(frame) == BattSum(frame, PACKET_LEN) \div PACKET_LEN

(* ------------------------------------------------------------------ *)
(* battery_check                                                       *)
(* ------------------------------------------------------------------ *)
\* batt_table, voltages in hundredths of a volt
batt_table ==
  << [cv |-> 327, percent |-> 0],  [cv |-> 361, percent |-> 5],
     [cv |-> 369, percent |-> 10], [cv |-> 371, percent |-> 15],
     [cv |-> 373, percent |-> 20], [cv |-> 375, percent |-> 25],
     [cv |-> 377, percent |-> 30], [cv |-> 379, percent |-> 35],
     [cv |-> 380, percent |-> 40], [cv |-> 382, percent |-> 45],
     [cv |-> 384, percent |-> 50], [cv |-> 385, percent |-> 55],
     [cv |-> 387, percent |-> 60], [cv |-> 391, percent |-> 65],
     [cv |-> 395, percent |-> 70], [cv |-> 398, percent |-> 75],
     [cv |-> 402, percent |-> 80], [cv |-> 408, percent |-> 85],
     [cv |-> 411, percent |-> 90], [cv |-> 415, percent |-> 95],
     [cv |-> 420, percent |-> 100] >>
batt_table_len == Len(batt_table)

\* voltage = (battery_reading / 4095.0) * 3.3 - 0.14, in units of 1/409500 V
\* (exact; the code rounds to float)
Voltage(reading) == reading * 330 - 57330
\* a table voltage in the same unit
TableV(k) == batt_table[k].cv * 4095

\* the first interval [v1, v2] holding v, as the for loop finds it
RECURSIVE FindInterval(_, _)
FindInterval(v, k) ==
  IF k >= batt_table_len THEN 0
  ELSE IF v >= TableV(k) /\ v <= TableV(k + 1) THEN k
  ELSE FindInterval(v, k + 1)

\* the percent of the anchor at or below v, with no interpolation
PercentAt_step(v) ==
  IF v < TableV(1) THEN batt_table[1].percent
  ELSE IF v > TableV(batt_table_len) THEN batt_table[batt_table_len].percent
  ELSE batt_table[FindInterval(v, 1)].percent
\* uint8_t percent of battery_check, for a voltage v
PercentAt(v) ==
  IF v < TableV(1) THEN batt_table[1].percent
  ELSE IF v > TableV(batt_table_len) THEN batt_table[batt_table_len].percent
  ELSE LET k == FindInterval(v, 1) IN
       IF k = 0 THEN 0
       ELSE LET p1 == batt_table[k].percent
                p2 == batt_table[k + 1].percent
            IN (p1 + ((v - TableV(k)) * (p2 - p1)) \div (TableV(k + 1) - TableV(k))) % 256
Percent(reading) == PercentAt(Voltage(reading))

\* if (percent < 5)
LowBattery(reading) == Percent(reading) < LOW_BATT_PERCENT

(* ------------------------------------------------------------------ *)
(* Inputs of the model.                                                *)
(* ------------------------------------------------------------------ *)
\* battery codes of the synthetic frames: 1916 maps to 8 %, 1891 to 4 %
BattCodes == {1916, 1891}
Frames == {MkFrame(0, b) : b \in BattCodes}

\* n bytes 'x'
Pad(n) == [i \in 1..n |-> 120]
\* buffers written to the control characteristic
ShortWrites ==
  { Bytes(<<"S", "T", "A", "R", "T">>), Bytes(<<"s", "t", "a", "r", "t">>),
    Bytes(<<"S", "T", "O", "P">>), Bytes(<<"s", "t", "o", "p", "1">>),
    Bytes(<<"W", "H", "O", "R", "U">>), Bytes(<<"S", "t", "A", "t", "U", "s">>),
    Bytes(<<"F", "O", "O">>), Bytes(<<"S", "T", "A">>), <<>> }
LongWrites ==
  { Bytes(<<"S", "T", "A", "R", "T">>) \o Pad(14),
    Bytes(<<"S", "T", "A", "R", "T">>) \o Pad(15),
    Bytes(<<"F", "O", "O">>) \o Pad(18) }
Writes == ShortWrites \cup LongWrites

\* outcomes of adc_continuous_read: <<ret, size_ret>>
ReadOutcomes(running) ==
  IF running
  THEN { <<"ESP_OK", CONV_FRAME_SIZE>>,
         <<"ESP_OK", CONV_FRAME_SIZE - SOC_ADC_DIGI_RESULT_BYTES>>,
         <<"ESP_ERR_TIMEOUT", 0>> }
  ELSE { <<"ESP_ERR_INVALID_STATE", 0>> }

(* ------------------------------------------------------------------ *)
(* State.                                                              *)
(* ------------------------------------------------------------------ *)
VARIABLES
  boot,            \* app_main: "init", "running", "aborted"; "crashed" after a panic
  bootlog,         \* what app_main did: nvs_flash_init calls, erase, the step that failed
  streaming,       \* bool streaming
  conn_handle,     \* uint16_t conn_handle
  pixels,          \* static uint8_t pixels[NUM_NEOPIXEL * 3]
  host,            \* NimBLE host task: "off", "started", "synced", "stopped"
  adc_on,          \* the continuous ADC driver is started
  adv,             \* the stack is advertising
  link,            \* handle of the live connection, or NoLink
  subscribed,      \* the peer enabled notifications of the data characteristic
  pc,              \* where adc_conv_task is
  pending,         \* its task-notification count
  counter,         \* uint8_t counter
  result,          \* the frame last read
  chords_packet,   \* uint8_t chords_packet[PACKET_LEN][SAMPLE_SIZE]
  battery_reading, \* int battery_reading
  hev,             \* the last host callback and what it did
  tev,             \* the last step of adc_conv_task and what it did
  built,           \* packets built so far
  prev_last,       \* sequence byte of the last row of the packet built before
  cutoffs,         \* times the low-battery stop sequence ran
  armed,           \* a START was processed and no STOP, disconnect, cutoff since
  after_stop,      \* packets handed to notify since then, while not armed
  ever_started     \* a START was processed since boot

vars == <<boot, bootlog, streaming, conn_handle, pixels, host, adc_on, adv, link,
          subscribed, pc, pending, counter, result, chords_packet,
          battery_reading, hev, tev, built, prev_last, cutoffs, armed, after_stop, ever_started>>

hostVars == <<streaming, conn_handle, host, adv, link, subscribed, hev, armed, after_stop, ever_started>>
taskVars == <<adc_on, pc, pending, counter, result, chords_packet,
              battery_reading, tev, built, prev_last, cutoffs>>

\* adc_conv_task is between a valid read and the end of its notify
MidCycle == pc \in {"encode", "battery", "notify"}
\* mid: a write or a disconnect that ran while adc_conv_task was inside a cycle
HostEv(op) ==
  [op |-> op, conn |-> NoLink, attr |-> 0, om |-> <<>>, response |-> "",
   notif |-> <<>>, rc |-> 0, mid |-> FALSE]
TaskEv(op) ==
  [op |-> op, ret |-> "", size_ret |-> 0, notif |-> <<>>, rc |-> 0, cut |-> FALSE]

NoBoot == [nvs_inits |-> 0, erased |-> FALSE, failed |-> "none"]

Init ==
  /\ boot = "init"
  /\ bootlog = NoBoot
  /\ streaming = FALSE
  /\ conn_handle = 0
  /\ pixels = [i \in 0..(NUM_NEOPIXEL * 3 - 1) |-> 0]
  /\ host = "off"
  /\ adc_on = FALSE
  /\ adv = FALSE
  /\ link = NoLink
  /\ subscribed = FALSE
  /\ pc = "none"
  /\ pending = 0
  /\ counter = 0
  /\ result = MkFrame(0, 0)
  /\ chords_packet = <<>>
  /\ battery_reading = 0
  /\ hev = HostEv("none")
  /\ tev = TaskEv("none")
  /\ built = 0
  /\ prev_last = 0
  /\ cutoffs = 0
  /\ armed = FALSE
  /\ after_stop = 0
  /\ ever_started = FALSE

(* ------------------------------------------------------------------ *)
(* app_main                                                            *)
(* ------------------------------------------------------------------ *)
BootSteps == {"nvs", "nimble", "gap", "gatt"}
\* esp_pm_configure is under ESP_ERROR_CHECK
BootFailures == BootSteps \cup {"pm"}
\* the first nvs_flash_init: ESP_OK or an error that is kept ("ok": the
\* failure, if any, is the step "nvs"); ESP_ERR_NVS_NO_FREE_PAGES or
\* ESP_ERR_NVS_NEW_VERSION_FOUND with nvs_flash_erase succeeding ("recover":
\* nvs_flash_init is called again) or failing ("erase_failed")
NvsFirst == {"ok", "recover", "erase_failed"}

\* the host task is created when no bring-up step failed
HostAfterBoot_always(failed) == "started"
HostAfterBoot(failed) == IF failed = "none" THEN "started" ELSE "off"

\* nvs1: the first nvs_flash_init; fail: the bring-up step that then fails,
\* or "none".  A failed ESP_ERROR_CHECK is abort(), a panic.
app_main(nvs1, fail) ==
  /\ boot = "init"
  /\ nvs1 = "erase_failed" => fail = "none"
  /\ pixels' = set_pixel(pixels, 0, RED, 10)
  /\ LET failed == IF nvs1 = "erase_failed" THEN "erase" ELSE fail IN
     /\ bootlog' = [nvs_inits |-> IF nvs1 = "recover" THEN 2 ELSE 1,
                    erased |-> nvs1 = "recover",
                    failed |-> failed]
     /\ boot' = IF failed = "none" THEN "running"
                ELSE IF failed \in {"erase", "pm"} THEN "crashed"
                ELSE "aborted"
     /\ host' = HostAfterBoot(failed)
     /\ pc' = IF failed = "none" THEN "start" ELSE pc
  /\ UNCHANGED <<streaming, conn_handle, adc_on, adv, link, subscribed, pending,
                 counter, result, chords_packet, battery_reading, hev, tev,
                 built, prev_last, cutoffs, armed, after_stop, ever_started>>

(* ------------------------------------------------------------------ *)
(* gap.c: the host task's callbacks, one event to completion at a time  *)
(* ------------------------------------------------------------------ *)
HostRuns == boot = "running" /\ host = "synced"

\* start_advertising(): adv_ok is FALSE when ble_gap_adv_set_fields or
\* ble_gap_adv_start fails
start_advertising_refused(adv_ok) == FALSE
start_advertising(adv_ok) == adv_ok

\* on_stack_sync -> adv_init -> start_advertising
on_stack_sync(adv_ok) ==
  /\ boot = "running" /\ host = "started"
  /\ host' = "synced"
  /\ adv' = start_advertising(adv_ok)
  /\ hev' = HostEv("sync")
  /\ UNCHANGED <<boot, bootlog, streaming, conn_handle, pixels, link, subscribed, armed, after_stop, ever_started>>
  /\ UNCHANGED taskVars

\* BLE_GAP_EVENT_CONNECT with status == 0: the link h exists when the
\* handler runs
gap_connect_ok(h, find_ok, upd_ok) ==
  /\ HostRuns /\ adv /\ link = NoLink
  /\ link' = h
  /\ adv' = FALSE
  /\ IF find_ok
     THEN /\ pixels' = set_pixel(pixels, 0, GREEN, 10)
          /\ conn_handle' = h
          /\ hev' = [HostEv("connect") EXCEPT !.conn = h,
                                              !.rc = IF upd_ok THEN 0 ELSE 1]
     ELSE /\ UNCHANGED <<pixels, conn_handle>>
          /\ hev' = [HostEv("connect") EXCEPT !.conn = h, !.rc = 1]
  /\ UNCHANGED <<boot, bootlog, streaming, host, subscribed, armed, after_stop, ever_started>>
  /\ UNCHANGED taskVars

\* BLE_GAP_EVENT_CONNECT with status != 0
gap_connect_failed(adv_ok) ==
  /\ HostRuns /\ adv /\ link = NoLink
  /\ adv' = start_advertising(adv_ok)
  /\ hev' = HostEv("connect_failed")
  /\ UNCHANGED <<boot, bootlog, streaming, conn_handle, pixels, host, link, subscribed, armed, after_stop, ever_started>>
  /\ UNCHANGED taskVars

\* streaming = false; // Stop streaming when disconnected
LinkLostFlag_kept(flag) == flag
LinkLostFlag(flag) == FALSE

\* BLE_GAP_EVENT_DISCONNECT
gap_disconnect(adv_ok) ==
  /\ HostRuns /\ link # NoLink
  /\ link' = NoLink
  /\ subscribed' = FALSE
  /\ pixels' = set_pixel(pixels, 0, RED, 10)
  /\ streaming' = LinkLostFlag(streaming)
  /\ adv' = start_advertising(adv_ok)
  /\ armed' = FALSE
  /\ hev' = [HostEv("disconnect") EXCEPT !.mid = MidCycle]
  /\ UNCHANGED <<boot, bootlog, conn_handle, host, after_stop, ever_started>>
  /\ UNCHANGED taskVars

\* BLE_GAP_EVENT_ADV_COMPLETE
gap_adv_complete(adv_ok) ==
  /\ HostRuns /\ adv /\ link = NoLink
  /\ adv' = start_advertising(adv_ok)
  /\ hev' = HostEv("adv_complete")
  /\ UNCHANGED <<boot, bootlog, streaming, conn_handle, pixels, host, link, subscribed, armed, after_stop, ever_started>>
  /\ UNCHANGED taskVars

\* BLE_GAP_EVENT_SUBSCRIBE: the handler only logs; the stack keeps the state
gap_subscribe(attr, cur_notify) ==
  /\ HostRuns /\ link # NoLink
  /\ subscribed' = IF attr = data_char_handle THEN cur_notify ELSE subscribed
  /\ hev' = [HostEv("subscribe") EXCEPT !.conn = link, !.attr = attr]
  /\ UNCHANGED <<boot, bootlog, streaming, conn_handle, pixels, host, adv, link, armed, after_stop, ever_started>>
  /\ UNCHANGED taskVars

\* BLE_GAP_EVENT_MTU and the default case
gap_other ==
  /\ HostRuns /\ link # NoLink
  /\ hev' = [HostEv("mtu") EXCEPT !.conn = link]
  /\ UNCHANGED <<boot, bootlog, streaming, conn_handle, pixels, host, adv, link, subscribed, armed, after_stop, ever_started>>
  /\ UNCHANGED taskVars

(* ------------------------------------------------------------------ *)
(* gatt_svr_chr_access_cb                                              *)
(* ------------------------------------------------------------------ *)
\* What a write longer than 19 bytes can do: the upper-casing loop and the
\* terminator write past cmd_buffer (undefined behaviour).  The bytes hit
\* may be dead ("none"), or the firmware panics before the command took
\* effect ("crash_early") or when the handler returns ("crash_late").
UbOutcomes(om) ==
  IF OutOfBounds(om) THEN {"none", "crash_early", "crash_late"} ELSE {"none"}

\* the notification of the response: to whom, on what
ControlNotify(conn, attr, response) ==
  [conn |-> conn, attr |-> attr, data |-> response]

\* the notifications a write issues: one, unless ble_hs_mbuf_from_flat
\* returned NULL
WriteNotifs(conn, attr, response, om_alloc) ==
  IF om_alloc THEN <<ControlNotify(conn, attr, response)>> ELSE <<>>

\* pixel 0 after the branch taken
PixelsAfter_always(cmd, px) == set_pixel(px, 0, GREEN, 10)
PixelsAfter(cmd, px) ==
  IF cmd = "START" THEN set_pixel(px, 0, BLUE, 10)
  ELSE IF cmd = "STOP" THEN set_pixel(px, 0, GREEN, 10)
  ELSE px

\* BLE_GATT_ACCESS_OP_WRITE_CHR on connection conn, attribute attr, payload om
gatt_write(conn, attr, om, om_alloc, ub) ==
  /\ HostRuns /\ link # NoLink /\ conn = link
  /\ ub \in UbOutcomes(om)
  /\ LET cmd == Decode(om)
         flag == FlagAfter(cmd, streaming)
         response == Response(cmd, flag)
     IN IF ub = "crash_early"
        THEN /\ boot' = "crashed"
             /\ UNCHANGED bootlog
             /\ hev' = [HostEv("write") EXCEPT !.conn = conn, !.attr = attr,
                                               !.om = om, !.rc = -1,
                                               !.mid = MidCycle]
             /\ UNCHANGED <<streaming, pixels, armed, after_stop, ever_started>>
        ELSE /\ streaming' = flag
             /\ pixels' = PixelsAfter(cmd, pixels)
             /\ armed' = FlagAfter(cmd, armed)
             /\ after_stop' = IF cmd = "START" THEN 0 ELSE after_stop
             /\ ever_started' = (ever_started \/ cmd = "START")
             /\ boot' = IF ub = "crash_late" THEN "crashed" ELSE boot
             /\ UNCHANGED bootlog
             /\ hev' = [HostEv("write") EXCEPT
                          !.conn = conn, !.attr = attr, !.om = om,
                          !.response = response,
                          !.notif = WriteNotifs(conn, attr, response, om_alloc),
                          !.rc = IF ub = "crash_late" THEN -1 ELSE 0,
                          !.mid = MidCycle]
  /\ UNCHANGED <<conn_handle, host, adv, link, subscribed>>
  /\ UNCHANGED taskVars

\* After a panic the chip halts or restarts, as the build is configured; a
\* restart clears RAM and runs app_main again.
panic_restart ==
  /\ boot = "crashed"
  /\ boot' = "init"
  /\ bootlog' = NoBoot
  /\ streaming' = FALSE
  /\ conn_handle' = 0
  /\ pixels' = [i \in 0..(NUM_NEOPIXEL * 3 - 1) |-> 0]
  /\ host' = "off"
  /\ adc_on' = FALSE
  /\ adv' = FALSE
  /\ link' = NoLink
  /\ subscribed' = FALSE
  /\ pc' = "none"
  /\ pending' = 0
  /\ counter' = 0
  /\ result' = MkFrame(0, 0)
  /\ chords_packet' = <<>>
  /\ battery_reading' = 0
  /\ hev' = HostEv("none")
  /\ tev' = TaskEv("none")
  /\ built' = 0
  /\ prev_last' = 0
  /\ cutoffs' = 0
  /\ armed' = FALSE
  /\ after_stop' = 0
  /\ ever_started' = FALSE

\* BLE_GATT_ACCESS_OP_READ_CHR.  os_mbuf_append of at most 7 bytes to the
\* response buffer the stack passes in needs no allocation.
gatt_read(conn, attr) ==
  /\ HostRuns /\ link # NoLink /\ conn = link
  /\ hev' = [HostEv("read") EXCEPT
               !.conn = conn, !.attr = attr,
               !.response = IF attr = control_char_handle
                            THEN ReadResponse(streaming) ELSE ""]
  /\ UNCHANGED <<boot, bootlog, streaming, conn_handle, pixels, host, adv, link, subscribed, armed, after_stop, ever_started>>
  /\ UNCHANGED taskVars

(* ------------------------------------------------------------------ *)
(* conv_done_cb and adc_conv_task                                      *)
(* ------------------------------------------------------------------ *)
\* conv_done_cb: vTaskNotifyGiveFromISR
conv_done_cb(max_built) ==
  /\ boot = "running" /\ adc_on
  /\ pending < MaxPending /\ built < max_built
  /\ pending' = pending + 1
  /\ UNCHANGED <<boot, bootlog, pixels, adc_on, pc, counter, result, chords_packet,
                 battery_reading, tev, built, prev_last, cutoffs>>
  /\ UNCHANGED hostVars

TaskRuns == boot = "running"

\* continuous_adc_init(); adc_continuous_start(adc_handle)
task_start ==
  /\ TaskRuns /\ pc = "start"
  /\ adc_on' = TRUE
  /\ pc' = "check"
  /\ tev' = TaskEv("start")
  /\ UNCHANGED <<boot, bootlog, pixels, pending, counter, result, chords_packet,
                 battery_reading, built, prev_last, cutoffs>>
  /\ UNCHANGED hostVars

\* where the loop goes on reading the flag: while (streaming)
AfterCheck_always(flag) == "wait"
AfterCheck(flag) == IF flag THEN "wait" ELSE "delay"

task_check ==
  /\ TaskRuns /\ pc = "check"
  /\ pc' = AfterCheck(streaming)
  /\ tev' = TaskEv("check")
  /\ UNCHANGED <<boot, bootlog, pixels, adc_on, pending, counter, result, chords_packet,
                 battery_reading, built, prev_last, cutoffs>>
  /\ UNCHANGED hostVars

\* vTaskDelay(pdMS_TO_TICKS(100)), then while (1) again
task_delay ==
  /\ TaskRuns /\ pc = "delay"
  /\ pc' = "check"
  /\ tev' = TaskEv("delay")
  /\ UNCHANGED <<boot, bootlog, pixels, adc_on, pending, counter, result, chords_packet,
                 battery_reading, built, prev_last, cutoffs>>
  /\ UNCHANGED hostVars

\* ulTaskNotifyTake(pdTRUE, portMAX_DELAY) returns: the count is cleared
task_take ==
  /\ TaskRuns /\ pc = "wait" /\ pending > 0
  /\ pending' = 0
  /\ pc' = "read"
  /\ tev' = TaskEv("take")
  /\ UNCHANGED <<boot, bootlog, pixels, adc_on, counter, result, chords_packet,
                 battery_reading, built, prev_last, cutoffs>>
  /\ UNCHANGED hostVars

\* if (ret == ESP_OK && size_ret == CONV_FRAME_SIZE)
ValidRead_any_size(ret, size_ret) == ret = "ESP_OK"
ValidRead(ret, size_ret) == ret = "ESP_OK" /\ size_ret = CONV_FRAME_SIZE

\* adc_continuous_read and the test of its result; the else branch only logs
task_read(ret, size_ret, frame) ==
  /\ TaskRuns /\ pc = "read"
  /\ <<ret, size_ret>> \in ReadOutcomes(adc_on)
  /\ IF ValidRead(ret, size_ret)
     THEN /\ result' = frame
          /\ pc' = "encode"
     ELSE /\ result' = result
          /\ pc' = "check"
  /\ tev' = [TaskEv("read") EXCEPT !.ret = ret, !.size_ret = size_ret]
  /\ UNCHANGED <<boot, bootlog, pixels, adc_on, pending, counter, chords_packet,
                 battery_reading, built, prev_last, cutoffs>>
  /\ UNCHANGED hostVars

\* the for-j loop and battery_reading / PACKET_LEN
task_encode ==
  /\ TaskRuns /\ pc = "encode"
  /\ chords_packet' = BuildPacket(counter, result)
  /\ counter' = CounterAfter(counter, PACKET_LEN)
  /\ battery_reading' = BatteryReading(result)
  /\ built' = built + 1
  /\ prev_last' = IF built = 0 THEN prev_last ELSE chords_packet[PACKET_LEN][1]
  /\ pc' = "battery"
  /\ tev' = TaskEv("encode")
  /\ UNCHANGED <<boot, bootlog, pixels, adc_on, pending, result, cutoffs>>
  /\ UNCHANGED hostVars

\* nimble_port_stop() and adc_continuous_stop(adc_handle)
HostAfterStop(h) == "stopped"
AdcAfterStop_kept(on) == on
AdcAfterStop(on) == FALSE

\* after battery_check returns: the notify follows, the flag is not read
AfterBattery_cancel(flag) == IF flag THEN "notify" ELSE "check"
AfterBattery(flag) == "notify"

\* battery_check(battery_reading).  nimble_port_stop() ends the host task;
\* the stack closes a live link on the way, and with link_event the host
\* task still delivers that link's BLE_GAP_EVENT_DISCONNECT to
\* gap_event_handler (whose start_advertising fails on a stopping host).
task_battery(link_event) ==
  /\ TaskRuns /\ pc = "battery"
  /\ IF LowBattery(battery_reading)
     THEN /\ host' = HostAfterStop(host)
          /\ adc_on' = AdcAfterStop(adc_on)
          /\ cutoffs' = cutoffs + 1
          /\ armed' = FALSE
          /\ adv' = FALSE
          /\ link' = NoLink
          /\ subscribed' = FALSE
          /\ IF link_event /\ HostRuns /\ link # NoLink
             THEN /\ pixels' = set_pixel(set_pixel(pixels, 5, RED, 10), 0, RED, 10)
                  /\ streaming' = LinkLostFlag(streaming)
                  /\ hev' = [HostEv("disconnect") EXCEPT !.mid = MidCycle]
             ELSE /\ pixels' = set_pixel(pixels, 5, RED, 10)
                  /\ UNCHANGED <<streaming, hev>>
          /\ tev' = [TaskEv("battery") EXCEPT !.cut = TRUE]
     ELSE /\ ~link_event
          /\ tev' = TaskEv("battery")
          /\ UNCHANGED <<pixels, host, adc_on, cutoffs, armed, adv, link,
                         subscribed, streaming, hev>>
  /\ pc' = AfterBattery(streaming)
  /\ UNCHANGED <<boot, bootlog, conn_handle, pending, counter, result, chords_packet,
                 battery_reading, built, prev_last, after_stop, ever_started>>

\* the packets the cycle hands to ble_gatts_notify_custom: one, to the global
\* conn_handle, unless ble_hs_mbuf_from_flat returned NULL
DataNotifs(om_alloc) ==
  IF om_alloc
  THEN <<[conn |-> conn_handle, attr |-> data_char_handle, data |-> chords_packet]>>
  ELSE <<>>

\* rc of ble_gatts_notify_custom: 0 needs a running host and that link
NotifyRcs == IF HostRuns /\ link # NoLink /\ link = conn_handle THEN {0, 1} ELSE {1}

\* after the notify: rc != 0 is logged, and the while loop goes on
AfterNotify_retry(rc) == IF rc = 0 THEN "check" ELSE "notify"
AfterNotify(rc) == "check"

task_notify(om_alloc, rc) ==
  /\ TaskRuns /\ pc = "notify"
  /\ rc \in (IF om_alloc THEN NotifyRcs ELSE {0})
  /\ tev' = [TaskEv("notify") EXCEPT !.notif = DataNotifs(om_alloc), !.rc = rc]
  /\ pc' = AfterNotify(rc)
  /\ after_stop' = IF om_alloc /\ ~armed THEN after_stop + 1 ELSE after_stop
  /\ UNCHANGED <<boot, bootlog, pixels, adc_on, pending, counter, result, chords_packet,
                 battery_reading, built, prev_last, cutoffs>>
  /\ UNCHANGED <<streaming, conn_handle, host, adv, link, subscribed, hev, armed,
                 ever_started>>

(* ------------------------------------------------------------------ *)
(* The system.                                                         *)
(* ------------------------------------------------------------------ *)
\* the buffers the full system is driven with.  Reads, MTU events and a
\* failed allocation of the response are left to CmdSpec.
SysWrites ==
  { Bytes(<<"S", "T", "A", "R", "T">>), Bytes(<<"s", "t", "o", "p", "1">>),
    Bytes(<<"F", "O", "O">>), Bytes(<<"S", "T", "A", "R", "T">>) \o Pad(15) }

Next ==
  \/ \E fail \in BootFailures \cup {"none"} : app_main("ok", fail)
  \/ \E adv_ok \in BOOLEAN : on_stack_sync(adv_ok)
  \/ \E h \in Handles, find_ok \in BOOLEAN, upd_ok \in BOOLEAN :
        gap_connect_ok(h, find_ok, upd_ok)
  \/ \E adv_ok \in BOOLEAN : gap_connect_failed(adv_ok)
  \/ \E adv_ok \in BOOLEAN : gap_disconnect(adv_ok)
  \/ \E adv_ok \in BOOLEAN : gap_adv_complete(adv_ok)
  \/ \E attr \in {data_char_handle, control_char_handle}, n \in BOOLEAN :
        gap_subscribe(attr, n)
  \/ \E om \in SysWrites, ub \in {"none", "crash_early", "crash_late"} :
        gatt_write(link, control_char_handle, om, TRUE, ub)
  \/ panic_restart
  \/ conv_done_cb(MaxBuilt)
  \/ task_start
  \/ task_check
  \/ task_delay
  \/ task_take
  \/ \E o \in ReadOutcomes(adc_on), frame \in Frames : task_read(o[1], o[2], frame)
  \/ task_encode
  \/ \E link_event \in BOOLEAN : task_battery(link_event)
  \/ \E om_alloc \in BOOLEAN, rc \in {0, 1} : task_notify(om_alloc, rc)

Spec == Init /\ [][Next]_vars

\* The command processor driven with every buffer of Writes, the
\* acquisition task left out.
NextCmd ==
  \/ app_main("ok", "none")
  \/ \E adv_ok \in BOOLEAN : on_stack_sync(adv_ok)
  \/ \E h \in Handles, find_ok \in BOOLEAN, upd_ok \in BOOLEAN :
        gap_connect_ok(h, find_ok, upd_ok)
  \/ \E adv_ok \in BOOLEAN : gap_disconnect(adv_ok)
  \/ gap_other
  \/ \E om \in Writes, om_alloc \in BOOLEAN, ub \in {"none", "crash_early", "crash_late"} :
        gatt_write(link, control_char_handle, om, om_alloc, ub)
  \/ gatt_read(link, control_char_handle)
  \/ panic_restart

CmdSpec == Init /\ [][NextCmd]_vars

\* The acquisition task run for MaxBuiltSeq packets, under START and STOP
\* writes, disconnects and reconnects, every read outcome and every
\* notification outcome.
SeqWrites == { Bytes(<<"S", "T", "A", "R", "T">>), Bytes(<<"S", "T", "O", "P">>) }
NextSeq ==
  \/ app_main("ok", "none")
  \/ on_stack_sync(TRUE)
  \/ gap_connect_ok(0, TRUE, TRUE)
  \/ gap_disconnect(TRUE)
  \/ \E om \in SeqWrites : gatt_write(link, control_char_handle, om, TRUE, "none")
  \/ conv_done_cb(MaxBuiltSeq)
  \/ task_start
  \/ task_check
  \/ task_delay
  \/ task_take
  \/ \E o \in ReadOutcomes(adc_on), frame \in Frames : task_read(o[1], o[2], frame)
  \/ task_encode
  \/ \E link_event \in BOOLEAN : task_battery(link_event)
  \/ \E om_alloc \in BOOLEAN, rc \in {0, 1} : task_notify(om_alloc, rc)

SeqSpec == Init /\ [][NextSeq]_vars

\* The cycle under a fair scheduler: once adc_conv_task has a valid frame it
\* is ready to run until the notify returned (no blocking call in between),
\* and FreeRTOS runs a ready task.  START and STOP writes, disconnects,
\* reconnects and subscriptions come at any point.
CycleSteps ==
  \/ task_encode
  \/ \E link_event \in BOOLEAN : task_battery(link_event)
  \/ \E om_alloc \in BOOLEAN, rc \in {0, 1} : task_notify(om_alloc, rc)
NextCycle ==
  \/ app_main("ok", "none")
  \/ on_stack_sync(TRUE)
  \/ \E h \in Handles : gap_connect_ok(h, TRUE, TRUE)
  \/ gap_disconnect(TRUE)
  \/ \E n \in BOOLEAN : gap_subscribe(data_char_handle, n)
  \/ \E om \in SeqWrites : gatt_write(link, control_char_handle, om, TRUE, "none")
  \/ conv_done_cb(MaxBuilt)
  \/ task_start
  \/ task_check
  \/ task_delay
  \/ task_take
  \/ \E o \in ReadOutcomes(adc_on), frame \in Frames : task_read(o[1], o[2], frame)
  \/ CycleSteps

CycleSpec == Init /\ [][NextCycle]_vars /\ WF_vars(CycleSteps)

\* set_pixel on its own: called with every uint8_t index up to MaxPixelArg
\* and with the largest one, on every buffer earlier calls left.
UINT8_MAX == 255
PixelArgs == 0..MaxPixelArg \cup {UINT8_MAX}
PixelColors == {RED, GREEN}
\* hev.attr: the index passed; hev.notif: the buffer handed to rmt_transmit
set_pixel_call(pixel_num, color, brightness) ==
  /\ pixels' = set_pixel(pixels, pixel_num, color, brightness)
  /\ hev' = [HostEv("set_pixel") EXCEPT
               !.attr = pixel_num,
               !.notif = IF set_pixel_transmits(pixel_num) THEN <<pixels'>> ELSE <<>>]
  /\ UNCHANGED <<boot, bootlog, streaming, conn_handle, host, adv, link, subscribed, armed, after_stop, ever_started>>
  /\ UNCHANGED taskVars
NextPixel == \E n \in PixelArgs, color \in PixelColors : set_pixel_call(n, color, 10)

PixelSpec == Init /\ [][NextPixel]_vars

\* Bring-up with every outcome of every step, then the two activities up to
\* a first connection and the idle acquisition loop.
NextBoot ==
  \/ \E nvs1 \in NvsFirst, fail \in BootFailures \cup {"none"} : app_main(nvs1, fail)
  \/ panic_restart
  \/ \E adv_ok \in BOOLEAN : on_stack_sync(adv_ok)
  \/ \E h \in Handles, find_ok \in BOOLEAN, upd_ok \in BOOLEAN :
        gap_connect_ok(h, find_ok, upd_ok)
  \/ \E adv_ok \in BOOLEAN : gap_disconnect(adv_ok)
  \/ \E attr \in {data_char_handle, control_char_handle}, n \in BOOLEAN :
        gap_subscribe(attr, n)
  \/ conv_done_cb(MaxBuilt)
  \/ task_start
  \/ task_check
  \/ task_delay

BootSpec == Init /\ [][NextBoot]_vars

\* The encoder on its own: one cycle of adc_conv_task from a good read on,
\* for a frame of every 12-bit code and a counter before and at the wrap.
\* The state is the one of a streaming session with a subscriber in which
\* the counter has the given value.
ADC_MAX_CODE == 4095
EncBattCodes == {1916, 2047, 1891}
EncFrames == {MkFrame(seed, 1916) : seed \in 0..ADC_MAX_CODE}
EncCornerFrames == {MkFrame(seed, b) : seed \in {0, 2048, ADC_MAX_CODE}, b \in EncBattCodes}
EncCounters == {10, 250}
\* <<counter, frame>>: every code at the wrap, the corner frames at both counters
EncInputs == ({250} \X EncFrames) \cup (EncCounters \X EncCornerFrames)
\* the packets built when the counter is c: 25 * 41 = 1 mod 256
BuiltAt(c) == (c * 41) % 256
EncState(inputs) ==
  /\ boot = "running"
  /\ bootlog = [nvs_inits |-> 1, erased |-> FALSE, failed |-> "none"]
  /\ streaming = TRUE
  /\ conn_handle = 0
  /\ pixels = set_pixel([i \in 0..(NUM_NEOPIXEL * 3 - 1) |-> 0], 0, BLUE, 10)
  /\ host = "synced"
  /\ adc_on = TRUE
  /\ adv = FALSE
  /\ link = 0
  /\ subscribed = TRUE
  /\ pc = "encode"
  /\ pending = 0
  /\ \E in \in inputs : counter = in[1] /\ result = in[2]
  /\ chords_packet = BuildPacket((counter + 256 - PACKET_LEN) % 256, MkFrame(0, 1916))
  /\ battery_reading = BatteryReading(MkFrame(0, 1916))
  /\ hev = [HostEv("subscribe") EXCEPT !.conn = 0, !.attr = data_char_handle]
  /\ tev = [TaskEv("read") EXCEPT !.ret = "ESP_OK", !.size_ret = CONV_FRAME_SIZE]
  /\ built = BuiltAt(counter)
  /\ prev_last = (counter + 256 - PACKET_LEN - 1) % 256
  /\ cutoffs = 0
  /\ armed = TRUE
  /\ after_stop = 0
  /\ ever_started = TRUE
InitEnc == EncState(EncInputs)
NextEnc ==
  \/ task_encode
  \/ \E link_event \in BOOLEAN : task_battery(link_event)
  \/ \E om_alloc \in BOOLEAN, rc \in {0, 1} : task_notify(om_alloc, rc)

EncSpec == InitEnc /\ [][NextEnc]_vars

\* The battery estimate on its own: one cycle from a good read on, for a
\* frame of every 12-bit battery code.
BattInputs == {250} \X {MkFrame(0, b) : b \in 0..ADC_MAX_CODE}
InitBatt == EncState(BattInputs)
BattSpec == InitBatt /\ [][NextEnc]_vars

(* ------------------------------------------------------------------ *)
(* Properties.                                                         *)
(* ------------------------------------------------------------------ *)
\* the command a buffer stands for: which literal the upper-cased buffer
\* starts with
Upper(om) == [i \in 1..Len(om) |-> IF om[i] \in 97..122 THEN om[i] - 32 ELSE om[i]]
HasPrefix(s, lit) == Len(s) >= Len(lit) /\ \A i \in 1..Len(lit) : s[i] = lit[i]
CommandOf(om) ==
  IF HasPrefix(Upper(om), L_START) THEN "START"
  ELSE IF HasPrefix(Upper(om), L_STOP) THEN "STOP"
  ELSE IF HasPrefix(Upper(om), L_WHORU) THEN "WHORU"
  ELSE IF HasPrefix(Upper(om), L_STATUS) THEN "STATUS"
  ELSE "UNKNOWN"

SeqByte(r) == chords_packet[r][1]
Handed == tev.op = "notify" /\ tev.notif # <<>>

\* C1: sequence continuity.  Row j of every packet built carries the
\* sequence byte (c + j) mod 256, c the byte of row 0; the first byte of a
\* packet is the last byte of the packet built before it plus 1 mod 256;
\* the counter is never reset, so it is 25 times the packets built, mod 256.
C1_SequenceContinuity ==
  /\ built >= 1 =>
       \A r \in 1..PACKET_LEN : SeqByte(r) = (SeqByte(1) + (r - 1)) % 256
  /\ built >= 2 => SeqByte(1) = (prev_last + 1) % 256
  /\ counter = (PACKET_LEN * built) % 256
\* the eleventh packet, which wraps inside (250..255, 0..18), built after a
\* disconnect
C1_Witness ==
  /\ built = 11 /\ SeqByte(1) = 250 /\ SeqByte(7) = 0 /\ SeqByte(PACKET_LEN) = 18
  /\ prev_last = 249
  /\ hev.op = "disconnect"

\* C2: when the acquisition loop wakes from its wait and the streaming
\* flag is false at that moment, the signal is discarded: the loop does not
\* go on to read a frame.
C2_WakeStoppedDiscards ==
  [][(pc = "wait" /\ pc' # "wait" /\ ~streaming) => pc' # "read"]_vars

\* C3: the streaming flag is false at boot, and it is true only if a START
\* was processed and no STOP, no disconnect and no low-battery cutoff came
\* since.
C3_FlagOnlyWhileStarted ==
  /\ boot = "init" => ~streaming
  /\ streaming => armed

\* C4: once the battery estimate of a cycle fell below 5 %, the streaming
\* flag is false, the low-battery indication is up, and no packet is handed
\* to the notify primitive, from that cycle on.
C4_CutoffStopsStreaming ==
  cutoffs >= 1 =>
    /\ ~streaming
    /\ Pixel(pixels, 5) = Shade(RED)
    /\ ~Handed

\* C5: the low-battery cutoff is terminal.  The cycle whose estimate is
\* below 5 % stops the wireless host and the sampling and sets pixel 5 red;
\* in every later state both are still stopped, and the stop sequence has
\* run once only.
C5_CutoffTerminal ==
  /\ tev.op = "battery" => (tev.cut <=> LowBattery(battery_reading))
  /\ (tev.op = "battery" /\ LowBattery(battery_reading)) => cutoffs >= 1
  /\ cutoffs >= 1 =>
       /\ cutoffs = 1
       /\ host = "stopped"
       /\ ~adc_on
       /\ Pixel(pixels, 5) = Shade(RED)
\* a later wake-up after the cutoff, whose read the stopped driver refuses
C5_Witness ==
  /\ cutoffs = 1
  /\ tev.op = "read" /\ tev.ret = "ESP_ERR_INVALID_STATE"
  /\ host = "stopped" /\ ~adc_on

\* C6: a read that returns an error or a wrong size hands nothing to
\* notify, builds nothing, and leaves the streaming flag and the counter as
\* they were; the loop goes back to its head, where it waits for the next
\* signal if the flag is still true.
C6_CorruptedReadSkips ==
  [][ /\ (pc = "read" /\ tev'.op = "read"
           /\ ~(tev'.ret = "ESP_OK" /\ tev'.size_ret = CONV_FRAME_SIZE))
         => /\ pc' = "check"
            /\ tev'.notif = <<>>
            /\ UNCHANGED <<streaming, counter, chords_packet, built, pixels>>
      /\ (pc = "check" /\ pc' # "check" /\ tev'.op = "check")
         => pc' = IF streaming THEN "wait" ELSE "delay"
    ]_vars
\* a short read while streaming, after a packet was built: back at the head
\* of the loop
C6_Witness ==
  /\ tev.op = "read" /\ tev.ret = "ESP_OK" /\ tev.size_ret # CONV_FRAME_SIZE
  /\ pc = "check" /\ streaming /\ built = 1 /\ counter = PACKET_LEN

\* C7: the effect and the response of every write are those of the command
\* its upper-cased buffer starts with: START sets the flag and answers
\* RUNNING, STOP clears it and answers STOPPED, WHORU answers NPG-LITE,
\* STATUS answers RUNNING or STOPPED by the flag, anything else answers
\* UNKNOWN COMMAND.
C7_WriteDecoded ==
  hev.op = "write" =>
    LET cmd == CommandOf(hev.om) IN
    /\ cmd = "START" => streaming /\ hev.response = "RUNNING"
    /\ cmd = "STOP" => ~streaming /\ hev.response = "STOPPED"
    /\ cmd = "WHORU" => hev.response = "NPG-LITE"
    /\ cmd = "STATUS" => hev.response = IF streaming THEN "RUNNING" ELSE "STOPPED"
    /\ cmd = "UNKNOWN" => hev.response = "UNKNOWN COMMAND"

\* C8: every write results in exactly one notification, carrying the
\* response, on the characteristic and the connection of the write, and the
\* handler returns 0: the write is never fatal.
C8_WriteAnswered ==
  hev.op = "write" =>
    /\ hev.notif = <<[conn |-> hev.conn, attr |-> hev.attr, data |-> hev.response]>>
    /\ hev.response \in {"RUNNING", "STOPPED", "NPG-LITE", "UNKNOWN COMMAND"}
    /\ hev.rc = 0
    /\ boot = "running"

WriteStep(om) ==
  \E om_alloc \in BOOLEAN, ub \in {"none", "crash_early", "crash_late"} :
     gatt_write(link, control_char_handle, om, om_alloc, ub)
ReadStep == gatt_read(link, control_char_handle)

\* C9: a WHORU, STATUS or unrecognized write, and a read, leave the
\* streaming flag, the connection handle and the pixel buffer as they were;
\* a step of the access callback that changes the flag is a START or STOP
\* write.
C9_QueriesChangeNothing ==
  [][ /\ \A om \in Writes :
           (WriteStep(om) /\ CommandOf(om) \notin {"START", "STOP"})
           => UNCHANGED <<streaming, conn_handle, pixels>>
      /\ ReadStep => UNCHANGED <<streaming, conn_handle, pixels>>
      /\ \A om \in Writes :
           (WriteStep(om) /\ streaming' # streaming)
           => CommandOf(om) \in {"START", "STOP"}
    ]_vars
\* FOO written while streaming: UNKNOWN COMMAND, the flag still true, pixel
\* 0 still blue
C9_Witness ==
  /\ hev.op = "write" /\ CommandOf(hev.om) = "UNKNOWN" /\ Len(hev.om) = 3
  /\ hev.response = "UNKNOWN COMMAND"
  /\ streaming /\ Pixel(pixels, 0) = Shade(BLUE) /\ conn_handle = link

\* C10: a read of the control characteristic returns RUNNING exactly when
\* the streaming flag is true, STOPPED otherwise, and notifies nothing.
C10_ReadStatus ==
  hev.op = "read" =>
    /\ streaming => hev.response = "RUNNING"
    /\ ~streaming => hev.response = "STOPPED"
    /\ hev.notif = <<>>
    /\ hev.rc = 0
\* a read while streaming
C10_Witness ==
  /\ hev.op = "read" /\ streaming /\ hev.response = "RUNNING"
  /\ hev.attr = control_char_handle

\* C11: command idempotence.  A STOP processed while the flag is false
\* answers STOPPED and leaves flag, pixel buffer and connection handle as
\* they were; a START processed while the flag is true answers RUNNING and
\* leaves them as they were; the same command written twice in a row
\* leaves, the second time, the state the first one left.
C11_CommandIdempotent ==
  [][ \A om \in Writes :
        WriteStep(om) =>
          /\ (CommandOf(om) = "STOP" /\ ~streaming)
             => /\ hev'.response = "STOPPED"
                /\ UNCHANGED <<streaming, pixels, conn_handle>>
          /\ (CommandOf(om) = "START" /\ streaming)
             => /\ hev'.response = "RUNNING"
                /\ UNCHANGED <<streaming, pixels, conn_handle>>
          /\ (CommandOf(om) \in {"START", "STOP"} /\ hev.op = "write" /\ hev.om = om)
             => UNCHANGED <<streaming, pixels, conn_handle>>
    ]_vars

AdvRefused ==
  \/ gap_disconnect(FALSE) \/ gap_adv_complete(FALSE) \/ gap_connect_failed(FALSE)

C14_NotifyFailureDropped ==
  [][ /\ (pc = "notify" /\ tev'.op = "notify")
         => /\ pc' = "check"
            /\ Len(tev'.notif) <= 1
            /\ UNCHANGED <<streaming, counter, chords_packet, built, adc_on, host, pending>>
            /\ counter' = (SeqByte(1) + PACKET_LEN) % 256
      /\ (tev'.notif # <<>> /\ tev' # tev) => (pc = "notify" /\ tev'.op = "notify")
      /\ (pc' = "notify" /\ pc # "notify") => (pc = "battery" /\ UNCHANGED built)
      /\ (pc' = "battery" /\ pc # "battery") => (pc = "encode" /\ built' = built + 1)
    ]_vars
\* the first packet dropped by a failed notification while streaming: the
\* loop is back at its head, sampling on, the counter at 25
C14_Witness ==
  /\ tev.op = "notify" /\ tev.rc = 1 /\ tev.notif # <<>>
  /\ pc = "check" /\ streaming /\ adc_on
  /\ built = 1 /\ counter = PACKET_LEN

\* a cycle has encoded the frame in result
Encoded == tev.op \in {"encode", "battery", "notify"}
\* the raw code of row j, channel k, and its rescaled value
Raw(j, k) == type2_data(result, j, k)
Rescaled(raw) == (raw * 4095) \div 3329

\* C15: the encoder.  For every frame of 12-bit codes, row j of the packet
\* carries its sequence byte at offset 0 and, for channel k in 0..2, the
\* value floor(raw * 4095 / 3329), which is below 65536, as two bytes, high
\* byte first, at offsets 1 + 2k and 2 + 2k; a row has 7 bytes.
C15_EncoderRows ==
  Encoded =>
    \A j \in 0..(PACKET_LEN - 1) :
      /\ Len(chords_packet[j + 1]) = SAMPLE_SIZE
      /\ chords_packet[j + 1][1] = (counter + 256 - PACKET_LEN + j) % 256
      /\ \A k \in 0..2 :
           /\ Raw(j, k) \in 0..ADC_MAX_CODE
           /\ Rescaled(Raw(j, k)) < 65536
           /\ chords_packet[j + 1][2 + 2 * k] = Rescaled(Raw(j, k)) \div 256
           /\ chords_packet[j + 1][3 + 2 * k] = Rescaled(Raw(j, k)) % 256
\* a frame whose first code is the largest, 4095, encoded as 5037 = 19 * 256
\* + 173, in a packet that wraps
C15_Witness ==
  /\ tev.op = "encode" /\ Raw(0, 0) = ADC_MAX_CODE
  /\ chords_packet[1][2] = 19 /\ chords_packet[1][3] = 173
  /\ chords_packet[1][1] = 250 /\ chords_packet[7][1] = 0

\* the 16-bit value row j of the packet carries for channel k
Sent(j, k) == chords_packet[j + 1][2 + 2 * k] * 256 + chords_packet[j + 1][3 + 2 * k]

\* C16: every channel value in a packet row is a 12-bit value, 0..4095,
\* for every raw 12-bit code 0..4095 of the frame.
C16_ValuesTwelveBit ==
  Encoded =>
    \A j \in 0..(PACKET_LEN - 1), k \in 0..2 : Sent(j, k) \in 0..ADC_MAX_CODE

\* the number of bytes of a packet: the lengths of its rows, added up
RECURSIVE ByteCount(_, _)
ByteCount(p, n) == IF n = 0 THEN 0 ELSE ByteCount(p, n - 1) + Len(p[n])

\* C17: every packet handed to the notify primitive is 175 bytes, 25 rows
\* of 7 bytes, and no byte of it depends on the battery channel: the frame
\* with any other battery code above the cutoff, encoded from the same
\* counter, gives the same packet.
C17_PacketShapeNoBattery ==
  Handed =>
    LET p == tev.notif[1].data
        c == (counter + 256 - PACKET_LEN) % 256
    IN /\ Len(p) = PACKET_LEN
       /\ \A r \in 1..PACKET_LEN : Len(p[r]) = 7
       /\ ByteCount(p, Len(p)) = 175
       /\ PACKET_SIZE = 175
       /\ \A b \in EncBattCodes :
            ~LowBattery(BatteryReading(MkFrame(result.seed, b)))
            => p = BuildPacket(c, MkFrame(result.seed, b))
\* a packet handed over with the battery at code 2047, no cutoff
C17_Witness ==
  /\ Handed /\ tev.rc = 0
  /\ result.batt = 2047 /\ ~LowBattery(battery_reading) /\ cutoffs = 0
  /\ result.seed = ADC_MAX_CODE

\* the truncated linear interpolation between anchors k and k + 1 at v
Interpolated(k, v) ==
  batt_table[k].percent
  + ((v - TableV(k)) * (batt_table[k + 1].percent - batt_table[k].percent))
    \div (TableV(k + 1) - TableV(k))

\* C18: percent as a function of the estimated voltage, over the 21
\* anchors.  Below 3.27 V it is 0, above 4.20 V it is 100, at an anchor
\* voltage it is the anchor's percent, between two adjacent anchors it is
\* the truncated linear interpolation of their percents; it is in 0..100
\* and does not decrease as the voltage rises.
C18_PercentOfVoltage ==
  Encoded =>
    LET v == Voltage(battery_reading)
        p == Percent(battery_reading)
    IN /\ batt_table_len = 21
       /\ batt_table[1].cv = 327 /\ batt_table[batt_table_len].cv = 420
       /\ v < TableV(1) => p = 0
       /\ v > TableV(batt_table_len) => p = 100
       /\ \A k \in 1..(batt_table_len - 1) :
            (v >= TableV(k) /\ v <= TableV(k + 1)) => p = Interpolated(k, v)
       /\ \A k \in 1..batt_table_len : PercentAt(TableV(k)) = batt_table[k].percent
       /\ p \in 0..100
       /\ p <= Percent(battery_reading + 1)
       /\ p <= PercentAt(v + 1)
\* an estimate between the first two anchors, interpolated to 4 %, which
\* the battery check has acted on
C18_Witness ==
  /\ tev.op = "battery" /\ tev.cut
  /\ Voltage(battery_reading) > TableV(1) /\ Voltage(battery_reading) < TableV(2)
  /\ Percent(battery_reading) = 4

\* neither activity was started
NothingStarted == host = "off" /\ pc = "none" /\ ~adc_on /\ ~adv /\ link = NoLink

\* C19: bring-up failures.  When nvs_flash_init, nimble_port_init, gap_init
\* or gatt_svc_init fails, app_main returns, and when nvs_flash_erase or
\* esp_pm_configure fails it panics; in both cases neither the host task
\* nor the acquisition task is started, and an aborted boot stays aborted.
\* The one retry is nvs_flash_init, called a second time after the erase.
\* Both tasks exist only when no step failed.
C19_BootFailureAborts ==
  /\ [](/\ bootlog.nvs_inits <= 2
        /\ bootlog.nvs_inits = 2 <=> bootlog.erased
        /\ bootlog.failed # "none"
           => (boot \in {"aborted", "crashed"} /\ NothingStarted)
        /\ boot = "aborted" => (bootlog.failed \in BootSteps /\ NothingStarted)
        /\ (host # "off" \/ pc # "none") => (bootlog.failed = "none" /\ bootlog.nvs_inits >= 1))
  /\ [][boot # "aborted"]_vars
\* the statement with no retry at all: no bring-up step is called twice
C19_NoRetry ==
  /\ bootlog.nvs_inits <= 1
  /\ bootlog.failed # "none" => NothingStarted
\* the wireless stack failed to initialize after storage was erased and
\* initialized again: aborted, nothing started
C19_Witness ==
  /\ boot = "aborted" /\ bootlog.failed = "nimble"
  /\ bootlog.nvs_inits = 2 /\ bootlog.erased
  /\ NothingStarted /\ Pixel(pixels, 0) = Shade(RED)

\* the 175 bytes ble_hs_mbuf_from_flat copies out of chords_packet[25][7],
\* row after row
Wire(p) ==
  [i \in 1..PACKET_SIZE |-> p[((i - 1) \div SAMPLE_SIZE) + 1][((i - 1) % SAMPLE_SIZE) + 1]]
\* row r (from 0) of a received frame: a 1-byte counter, then three 16-bit
\* values, high byte first
DecodeRow(w, r) ==
  [counter |-> w[SAMPLE_SIZE * r + 1],
   ch |-> [k \in 0..2 |-> w[SAMPLE_SIZE * r + 2 + 2 * k] * 256
                           + w[SAMPLE_SIZE * r + 3 + 2 * k]]]
\* a 175-byte frame as 25 rows of (counter, ch0, ch1, ch2)
DecodeFrame(w) == [r \in 0..(PACKET_LEN - 1) |-> DecodeRow(w, r)]
\* the counter the encoder started the packet from
FirstStamped == (counter + 256 - PACKET_LEN) % 256

\* C20: round trip.  Decoding the 175 bytes of a built packet as 25 rows of
\* a 1-byte counter and three big-endian 16-bit values gives back the
\* counters the encoder stamped, consecutive modulo 256 (10..34 from
\* counter 10; 250..255, 0..18 from counter 250), and, for every frame of
\* 12-bit raw codes, exactly the rescaled value MAP(raw) of every channel.
C20_RoundTrip ==
  Encoded =>
    LET w == Wire(chords_packet)
        d == DecodeFrame(w)
    IN /\ Len(w) = 175
       /\ \A j \in 0..(PACKET_LEN - 1) :
            /\ d[j].counter = CounterAfter(FirstStamped, j)
            /\ FirstStamped = 10 => d[j].counter = 10 + j
            /\ FirstStamped = 250 =>
                 d[j].counter = (IF j < 6 THEN 250 + j ELSE j - 6)
            /\ \A k \in 0..2 :
                 /\ Raw(j, k) \in 0..ADC_MAX_CODE
                 /\ d[j].ch[k] = MAP(Raw(j, k))
                 /\ d[j].ch[k] = adc_reading(Raw(j, k))
       /\ CounterAfter(FirstStamped, PACKET_LEN) = counter
\* a packet built from counter 10 for the frame whose first code is the
\* largest: decoded rows 10..34, first value 5037
C20_Witness ==
  /\ tev.op = "encode" /\ FirstStamped = 10
  /\ Raw(0, 0) = ADC_MAX_CODE
  /\ DecodeFrame(Wire(chords_packet))[0].counter = 10
  /\ DecodeFrame(Wire(chords_packet))[PACKET_LEN - 1].counter = 34
  /\ DecodeFrame(Wire(chords_packet))[0].ch[0] = 5037

\* C21: one cycle per conversion-complete signal.  While streaming stays
\* true, the step that starts a cycle (ulTaskNotifyTake returning) uses up
\* exactly one of the signals conv_done_cb raised, so that the cycles run
\* equal the signals raised, also when several were raised before the wait.
C21_OneCyclePerSignal ==
  [][(pc = "wait" /\ pc' = "read" /\ streaming /\ streaming')
       => pending' = pending - 1]_vars

\* C22: no mid-cycle cancellation.  From a valid read the cycle goes
\* through encoding, the battery check and the notify attempt whatever the
\* host callbacks do to the flag or the link meanwhile, and it gets there;
\* the loop enters its wait only from the test of the flag, with the flag
\* true, and goes to its delay when the flag is false.
C22_NoMidCycleCancel ==
  /\ [][ /\ (pc = "encode" /\ pc' # pc) => (pc' = "battery" /\ tev'.op = "encode")
         /\ (pc = "battery" /\ pc' # pc) => (pc' = "notify" /\ tev'.op = "battery")
         /\ (pc = "notify" /\ pc' # pc) => (pc' = "check" /\ tev'.op = "notify")
         /\ (pc' = "wait" /\ pc # "wait") => (pc = "check" /\ streaming)
         /\ (pc = "check" /\ pc' # pc /\ ~streaming) => pc' = "delay"
       ]_vars
  /\ (pc = "encode") ~> (pc = "check" /\ tev.op = "notify")
\* a STOP processed while the cycle was under way: the packet was handed to
\* notify all the same, and the loop is at the test of the flag, now false
C22_Witness ==
  /\ tev.op = "notify" /\ tev.notif # <<>> /\ pc = "check"
  /\ hev.op = "write" /\ CommandOf(hev.om) = "STOP" /\ hev.mid
  /\ ~streaming /\ link # NoLink

\* a step of adc_conv_task, a step of a host callback
TaskStepped == boot = "running" /\ boot' = "running" /\ pc' # pc
HostStepped == boot = "running" /\ hev' # hev

\* C23: the streaming flag is the only state the two activities share.  A
\* step of the acquisition task writes none of the flag, the connection
\* handle and the pixel buffer, which the host callbacks write, and a host
\* callback writes nothing the task owns.
C23_OnlyFlagShared ==
  [][ /\ TaskStepped => UNCHANGED <<streaming, conn_handle, pixels>>
      /\ (HostStepped /\ ~TaskStepped)
         => UNCHANGED <<counter, result, chords_packet, battery_reading, adc_on>>
    ]_vars

\* the notify step of a cycle
NotifyStep == pc = "notify" /\ tev'.op = "notify" /\ pc' # pc

OtherBytes(n) == {i \in 0..(NUM_NEOPIXEL * 3 - 1) : i \notin {n * 3, n * 3 + 1, n * 3 + 2}}

\* C25: set_pixel accepts the indices 0..5 only.  Called with any other
\* index it changes no byte of the pixel buffer and transmits nothing;
\* called with an index in range it writes the three bytes of that pixel
\* (green, blue, red of the colour), leaves the bytes of the other five
\* pixels as they were, and transmits the buffer.
C25_SetPixelRange ==
  [][ \A n \in PixelArgs, color \in PixelColors :
        set_pixel_call(n, color, 10) =>
          /\ n \notin 0..5 => (pixels' = pixels /\ hev'.notif = <<>>)
          /\ n \in 0..5 =>
               /\ \A i \in OtherBytes(n) : pixels'[i] = pixels[i]
               /\ Pixel(pixels', n) = Shade(color)
               /\ hev'.notif = <<pixels'>>
    ]_vars
\* index 6 on a buffer with pixels 0 and 5 lit: nothing changed, nothing sent
C25_Witness ==
  /\ hev.op = "set_pixel" /\ hev.attr = 6 /\ hev.notif = <<>>
  /\ Pixel(pixels, 0) = Shade(GREEN) /\ Pixel(pixels, 5) = Shade(RED)
  /\ Pixel(pixels, 1) = <<0, 0, 0>>

\* C26: after a STOP was processed or a disconnect handled, at most one
\* more packet is handed to the notify primitive until a START is
\* processed, however the host callbacks and the acquisition task
\* interleave.
C26_AtMostOneAfterStop ==
  /\ after_stop <= 1
  /\ armed => after_stop = 0
\* the one packet: a STOP arrived while the task was outside a cycle, past
\* its test of the flag; the signal woke it and the cycle ran
C26_Witness ==
  /\ after_stop = 1 /\ tev.op = "notify" /\ tev.notif # <<>>
  /\ hev.op = "write" /\ CommandOf(hev.om) = "STOP" /\ ~hev.mid
  /\ ~streaming /\ pc = "check" /\ built = 1

\* C27: after a disconnect and a new connection no data packet is handed
\* to notify with the handle of the new link before a START was written on
\* it.  A new link on which no START is in force, and whose connect event
\* is the last callback the host ran, has had no START: no packet is
\* handed over with its handle then.
C27_NoDataBeforeStart ==
  ~(/\ Handed /\ pc = "check"
    /\ link # NoLink /\ tev.notif[1].conn = link
    /\ hev.op = "connect" /\ hev.conn = link
    /\ ~armed)

\* C28: before any low-battery cutoff, in every state between two host
\* callbacks, the streaming flag is true only while a link is live
\* (connected, subscribed or not), and never while the device advertises.
C28_FlagNeedsLink ==
  (cutoffs = 0 /\ streaming) => (link # NoLink /\ ~adv /\ host = "synced")
\* streaming on a subscribed link: one packet built, the task waiting for
\* the next signal
C28_Witness ==
  /\ cutoffs = 0 /\ streaming /\ link # NoLink /\ subscribed /\ ~adv
  /\ hev.op = "subscribe" /\ built = 1 /\ after_stop = 0 /\ counter = PACKET_LEN
  /\ pc = "wait"

\* C29: for a write of any length the command processor reads and writes
\* only the indices 0..19 of cmd_buffer, and the buffer it decodes has a
\* NUL within those 20 bytes.
C29_BufferInBounds ==
  hev.op = "write" =>
    /\ IndicesTouched(hev.om) \subseteq 0..(CMD_BUFFER_SIZE - 1)
    /\ \E i \in 0..(CMD_BUFFER_SIZE - 1) : cmd_buffer(hev.om)[i] = 0
    /\ ~OutOfBounds(hev.om)

\* C30: whenever a link is live the shared conn_handle is the handle of
\* that link, the one established last, whatever way the connect handler
\* returned; so every data notification is issued with the handle of the
\* link that is live when it is issued.
C30_HandleIsLiveLink ==
  /\ [](link # NoLink => conn_handle = link)
  /\ [][(NotifyStep /\ tev'.notif # <<>>)
          => (link # NoLink /\ tev'.notif[1].conn = link)]_vars

\* C31: status LED.  Between two host callbacks pixel 0 is blue exactly
\* when the streaming flag is true, green only with a live link and the
\* flag false, and red only when no connection is current.
C31_LedConsistent ==
  /\ (Pixel(pixels, 0) = Shade(BLUE)) <=> streaming
  /\ (Pixel(pixels, 0) = Shade(GREEN)) => (link # NoLink /\ ~streaming)
  /\ (Pixel(pixels, 0) = Shade(RED)) => link = NoLink

\* C32: the battery estimate and the low-battery cutoff run only inside an
\* acquisition cycle that read a valid frame while streaming.  No cutoff
\* has occurred while no START was processed since boot; a cycle is entered
\* only on a true flag; a corrupted read goes back to the flag test with no
\* cutoff; the cutoff is decided on the step after the encoding of a valid
\* read and before that cycle's packet is handed to notify.
C32_CutoffOnlyInValidCycle ==
  /\ []((cutoffs >= 1 \/ MidCycle) => ever_started)
  /\ [][(TaskStepped /\ pc = "check" /\ pc' = "wait") => streaming]_vars
  /\ [][(TaskStepped /\ pc = "read"
          /\ ~(tev'.ret = "ESP_OK" /\ tev'.size_ret = CONV_FRAME_SIZE))
          => (pc' = "check" /\ cutoffs' = cutoffs)]_vars
  /\ [][(TaskStepped /\ pc = "read" /\ pc' = "encode")
          => (tev'.ret = "ESP_OK" /\ tev'.size_ret = CONV_FRAME_SIZE)]_vars
  /\ [][(boot = "running" /\ cutoffs' # cutoffs)
          => (/\ pc = "battery" /\ tev.op = "encode"
              /\ tev'.op = "battery" /\ tev'.cut
              /\ pc' = "notify")]_vars
  /\ [][(boot = "running" /\ boot' = "running"
          /\ battery_reading' # battery_reading)
          => (pc = "encode" /\ tev.op = "read")]_vars
  /\ [][(TaskStepped /\ pc = "battery") => tev.op = "encode"]_vars
  /\ [][(TaskStepped /\ pc = "encode") => (tev.op = "read" /\ pc' = "battery")]_vars
  /\ [][NotifyStep => (tev.op = "battery" /\ cutoffs' = cutoffs)]_vars

\* the cutoff was just decided in a cycle entered after a START, and the
\* cycle's packet is still to be handed to notify
C32_Witness ==
  /\ pc = "notify" /\ tev.op = "battery" /\ tev.cut
  /\ cutoffs = 1 /\ ever_started /\ LowBattery(battery_reading)

====
